---- MODULE Spec2Model ----
(***************************************************************************)
(* State-machine model of the Timeline Bookmark Tool controller (App.tsx). *)
(*                                                                         *)
(* The React state of the App component, the AsyncStorage key 'bookmarks', *)
(* the calls to the native FloatingWidgetModule that are in flight and the *)
(* position of every async function are the state.  Every handler is one   *)
(* action up to its await; the part after the await is the action that     *)
(* settles the awaited call.                                               *)
(*                                                                         *)
(* History variables (written, never read by the modelled code) record     *)
(* which button press a context and a bookmark came from.  The field       *)
(* `born` of a bookmark is such a history field: the creation serial       *)
(* number, carried with the record through the storage round trip.         *)
(***************************************************************************)
EXTENDS Naturals, Sequences, FiniteSets, TLC

\* ------------------------------------------------------------------ bounds
MaxSaves == 2
MaxPresses == 2
MaxClock == 1
MaxSessions == 2
MaxRequests == 2
MaxCalls == 2

Notes == {"", "a"}
Apps == {"x", "y"}

VARIABLES
    \* React state (App.tsx 28-33)
    hasPermission, isServiceRunning, modalVisible, currentNote, context, bookmarks,
    \* AsyncStorage: the value under key 'bookmarks' and the requests in flight
    storage, storageQ,
    \* native collaborator: overlay permission, service, calls in flight
    overlayGranted, serviceAlive, checkPc, permRequests, serviceCalls,
    \* getForegroundApp queries in flight, one per button press
    queries,
    \* environment: the clock, the last alert shown
    now, alert,
    \* history
    sessions, nPresses, nCaptures, ctxPress, history, loadState, written, prevSession

vars == <<hasPermission, isServiceRunning, modalVisible, currentNote, context,
          bookmarks, storage, storageQ, overlayGranted, serviceAlive, checkPc,
          permRequests, serviceCalls, queries, now, alert, sessions, nPresses,
          nCaptures, ctxPress, history, loadState, written, prevSession>>

reactVars == <<hasPermission, isServiceRunning, modalVisible, currentNote, context, bookmarks>>
captureVars == <<modalVisible, currentNote, context, bookmarks>>
storeVars == <<storage, storageQ>>
nativeVars == <<overlayGranted, serviceAlive, checkPc, permRequests, serviceCalls>>
serviceVars == <<hasPermission, isServiceRunning, overlayGranted, serviceAlive,
                 checkPc, permRequests, serviceCalls>>
histVars == <<sessions, nPresses, nCaptures, ctxPress, history, loadState, written,
              prevSession>>

\* ------------------------------------------------------------- conversions
\* context: {app, timestamp} | null
NullContext == [isNull |-> TRUE, app |-> "", timestamp |-> ""]
NoPress == [press |-> 0, time |-> 0, app |-> ""]

\* Date.now().toString()
DateNowToString(t) == ToString(t)

\* new Date().toLocaleString(): one tick of the model's clock is one unit of
\* the formatted timestamp's resolution
ToLocaleString(t) == ToString(t)

\* JSON.stringify of a Bookmark[]: the serialized text is a sequence of
\* field tuples, not a sequence of records.
Stringify(list) ==
    [i \in 1..Len(list) |-> <<list[i].id, list[i].note, list[i].app, list[i].timestamp, list[i].born>>]

\* JSON.parse of the stored text
ParseMut(text) ==
    [i \in 1..Len(text) |->
        LET t == text[Len(text) + 1 - i]
        IN [id |-> t[1], note |-> t[2], app |-> t[3], timestamp |-> t[4], born |-> t[5]]]
Parse(text) ==
    [i \in 1..Len(text) |->
        [id |-> text[i][1], note |-> text[i][2], app |-> text[i][3],
         timestamp |-> text[i][4], born |-> text[i][5]]]

\* AsyncStorage.getItem resolves to null when the key was never set
NoItem == [present |-> FALSE, text |-> <<>>]
\* `if (storedBookmarks)`: null is falsy, a serialized array never is
Truthy(item) == item.present

\* The list the persisted blob decodes to (empty when nothing is persisted)
Persisted == IF storage.present THEN Parse(storage.text) ELSE <<>>

\* [newBookmark, ...bookmarks]
PrependMut(b, list) == Append(list, b)
Prepend(b, list) == <<b>> \o list

\* `if (!currentNote || !context) return;` negated
CanSaveMut == ~context.isNull
CanSave == currentNote # "" /\ ~context.isNull

\* A sequence without its i-th element
Remove(seq, i) == [j \in 1..(Len(seq) - 1) |-> IF j < i THEN seq[j] ELSE seq[j + 1]]

\* Requests handed to AsyncStorage.  `src` is history: the list a write's
\* text was serialized from.
GetRequest == [op |-> "get", text |-> <<>>, src |-> <<>>, live |-> TRUE]
SetRequest(list) == [op |-> "set", text |-> Stringify(list), src |-> list, live |-> TRUE]
LiveWrites == {i \in 1..Len(storageQ) : storageQ[i].op = "set" /\ storageQ[i].live}
PendingWrites == {i \in 1..Len(storageQ) : storageQ[i].op = "set"}

\* --------------------------------------------------------------------- Init
Init ==
    /\ hasPermission = FALSE
    /\ isServiceRunning = FALSE
    /\ modalVisible = FALSE
    /\ currentNote = ""
    /\ context = NullContext
    /\ bookmarks = <<>>
    /\ storage = NoItem
    /\ storageQ = <<GetRequest>>
    /\ overlayGranted = FALSE
    /\ serviceAlive = FALSE
    /\ checkPc = "hasOverlayPermission"
    /\ permRequests = 0
    /\ serviceCalls = <<>>
    /\ queries = <<>>
    /\ now = 0
    /\ alert = "none"
    /\ sessions = 1
    /\ nPresses = 0
    /\ nCaptures = 0
    /\ ctxPress = NoPress
    /\ history = <<>>
    /\ loadState = "pending"
    /\ written = <<>>
    /\ prevSession = [clean |-> TRUE, list |-> <<>>]

\* ------------------------------------------------------------ environment
\* The wall clock advances.
Tick ==
    /\ now < MaxClock
    /\ now' = now + 1
    /\ UNCHANGED <<reactVars, storeVars, nativeVars, queries, alert, histVars>>

\* ------------------------------------------- onFloatingButtonPress listener
\* The native service emits 'onFloatingButtonPress'; the listener calls
\* getForegroundApp and awaits it.
ButtonPress ==
    /\ nPresses < MaxPresses
    /\ nPresses' = nPresses + 1
    /\ queries' = Append(queries, now)
    /\ UNCHANGED <<reactVars, storeVars, nativeVars, now, alert,
                   sessions, nCaptures, ctxPress, history, loadState, written, prevSession>>

\* setContext({ app: foregroundApp, timestamp })
CapturedContextMut(foregroundApp, timestamp) ==
    [isNull |-> FALSE, app |-> "", timestamp |-> timestamp]
CapturedContext(foregroundApp, timestamp) ==
    [isNull |-> FALSE, app |-> foregroundApp, timestamp |-> timestamp]

\* getForegroundApp resolves: timestamp is taken now, context and modal set.
GetForegroundAppResolved ==
    \E q \in DOMAIN queries, foregroundApp \in Apps :
        LET timestamp == ToLocaleString(now)
        IN /\ queries' = Remove(queries, q)
           /\ context' = CapturedContext(foregroundApp, timestamp)
           /\ modalVisible' = TRUE
           /\ ctxPress' = [press |-> nCaptures + 1, time |-> queries[q], app |-> foregroundApp]
           /\ nCaptures' = nCaptures + 1
           /\ UNCHANGED <<hasPermission, isServiceRunning, currentNote, bookmarks,
                          storeVars, nativeVars, now, alert,
                          sessions, nPresses, history, loadState, written, prevSession>>

\* getForegroundApp rejects: console.error and Alert.alert only.
GetForegroundAppRejectedMut ==
    \E q \in DOMAIN queries :
        /\ queries' = Remove(queries, q)
        /\ alert' = "context"
        /\ context' = NullContext
        /\ modalVisible' = FALSE
        /\ UNCHANGED <<hasPermission, isServiceRunning, currentNote, bookmarks,
                       storeVars, nativeVars, now, histVars>>
GetForegroundAppRejected ==
    \E q \in DOMAIN queries :
        /\ queries' = Remove(queries, q)
        /\ alert' = "context"
        /\ UNCHANGED <<reactVars, storeVars, nativeVars, now, histVars>>

\* ------------------------------------------------------------ capture dialog
\* TextInput onChangeText={setCurrentNote}; the input is inside the Modal.
ChangeText ==
    /\ modalVisible
    /\ \E text \in Notes :
        /\ text # currentNote
        /\ currentNote' = text
    /\ UNCHANGED <<hasPermission, isServiceRunning, modalVisible, context, bookmarks,
                   storeVars, nativeVars, queries, now, alert, histVars>>

\* Cancel button and Modal onRequestClose: setModalVisible(false).
CancelMut ==
    /\ modalVisible
    /\ modalVisible' = FALSE
    /\ currentNote' = ""
    /\ UNCHANGED <<hasPermission, isServiceRunning, context, bookmarks,
                   storeVars, nativeVars, queries, now, alert, histVars>>
Cancel ==
    /\ modalVisible
    /\ modalVisible' = FALSE
    /\ UNCHANGED <<hasPermission, isServiceRunning, currentNote, context, bookmarks,
                   storeVars, nativeVars, queries, now, alert, histVars>>

\* The Bookmark handleSaveNote builds.
NewBookmark ==
    [id |-> DateNowToString(now), note |-> currentNote, app |-> context.app,
     timestamp |-> context.timestamp, born |-> Len(history) + 1]

\* Save Note button: handleSaveNote up to `await AsyncStorage.setItem`.
HandleSaveNoteMut ==
    /\ modalVisible
    /\ Len(history) < MaxSaves
    /\ IF CanSave
       THEN LET updatedBookmarks == Prepend(NewBookmark, bookmarks)
            IN /\ bookmarks' = updatedBookmarks
               /\ storageQ' = Append(storageQ, SetRequest(updatedBookmarks))
               /\ history' = Append(history, ctxPress)
               /\ UNCHANGED modalVisible
       ELSE /\ modalVisible' = FALSE
            /\ UNCHANGED <<bookmarks, storageQ, history>>
    /\ UNCHANGED <<hasPermission, isServiceRunning, currentNote, context,
                   storage, nativeVars, queries, now, alert,
                   sessions, nPresses, nCaptures, ctxPress, loadState, written, prevSession>>
HandleSaveNote ==
    /\ modalVisible
    /\ Len(history) < MaxSaves
    /\ IF CanSave
       THEN LET updatedBookmarks == Prepend(NewBookmark, bookmarks)
            IN /\ bookmarks' = updatedBookmarks
               /\ storageQ' = Append(storageQ, SetRequest(updatedBookmarks))
               /\ history' = Append(history, ctxPress)
       ELSE UNCHANGED <<bookmarks, storageQ, history>>
    /\ UNCHANGED <<hasPermission, isServiceRunning, modalVisible, currentNote, context,
                   storage, nativeVars, queries, now, alert,
                   sessions, nPresses, nCaptures, ctxPress, loadState, written, prevSession>>

\* AsyncStorage.setItem resolves; a write whose session is still alive runs
\* the rest of handleSaveNote.
SetItemResolvedMut ==
    /\ storageQ # <<>>
    /\ Head(storageQ).op = "set"
    /\ storage' = [present |-> TRUE, text |-> Head(storageQ).text]
    /\ storageQ' = Tail(storageQ)
    /\ IF Head(storageQ).live
       THEN /\ currentNote' = ""
            /\ context' = NullContext
            /\ UNCHANGED modalVisible
       ELSE UNCHANGED <<currentNote, context, modalVisible>>
    /\ written' = Head(storageQ).src
    /\ UNCHANGED <<hasPermission, isServiceRunning, bookmarks, nativeVars, queries,
                   now, alert, sessions, nPresses, nCaptures, ctxPress, history,
                   loadState, prevSession>>
SetItemResolved ==
    /\ storageQ # <<>>
    /\ Head(storageQ).op = "set"
    /\ storage' = [present |-> TRUE, text |-> Head(storageQ).text]
    /\ storageQ' = Tail(storageQ)
    /\ IF Head(storageQ).live
       THEN /\ currentNote' = ""
            /\ context' = NullContext
            /\ modalVisible' = FALSE
       ELSE UNCHANGED <<currentNote, context, modalVisible>>
    /\ written' = Head(storageQ).src
    /\ UNCHANGED <<hasPermission, isServiceRunning, bookmarks, nativeVars, queries,
                   now, alert, sessions, nPresses, nCaptures, ctxPress, history,
                   loadState, prevSession>>

\* AsyncStorage.setItem rejects: the catch block shows the alert.
SetItemRejectedMut ==
    /\ storageQ # <<>>
    /\ Head(storageQ).op = "set"
    /\ storageQ' = Tail(storageQ)
    /\ alert' = IF Head(storageQ).live THEN "save" ELSE alert
    /\ IF Head(storageQ).live
       THEN /\ currentNote' = ""
            /\ context' = NullContext
            /\ modalVisible' = FALSE
       ELSE UNCHANGED <<currentNote, context, modalVisible>>
    /\ UNCHANGED <<hasPermission, isServiceRunning, bookmarks, storage, nativeVars,
                   queries, now, histVars>>
SetItemRejected ==
    /\ storageQ # <<>>
    /\ Head(storageQ).op = "set"
    /\ storageQ' = Tail(storageQ)
    /\ alert' = IF Head(storageQ).live THEN "save" ELSE alert
    /\ UNCHANGED <<reactVars, storage, nativeVars, queries, now, histVars>>

\* -------------------------------------------------------------- loadBookmarks
\* AsyncStorage.getItem resolves.
GetItemResolved ==
    /\ storageQ # <<>>
    /\ Head(storageQ).op = "get"
    /\ storageQ' = Tail(storageQ)
    /\ bookmarks' = IF Truthy(storage) THEN Parse(storage.text) ELSE bookmarks
    /\ loadState' = "ok"
    /\ UNCHANGED <<hasPermission, isServiceRunning, modalVisible, currentNote, context,
                   storage, nativeVars, queries, now, alert,
                   sessions, nPresses, nCaptures, ctxPress, history, written, prevSession>>

\* AsyncStorage.getItem rejects: console.error only.
GetItemRejected ==
    /\ storageQ # <<>>
    /\ Head(storageQ).op = "get"
    /\ storageQ' = Tail(storageQ)
    /\ loadState' = "failed"
    /\ UNCHANGED <<reactVars, storage, nativeVars, queries, now, alert,
                   sessions, nPresses, nCaptures, ctxPress, history, written, prevSession>>

\* ---------------------------------------------------------------- checkStatus
\* hasOverlayPermission resolves: setHasPermission, then the service query
\* only when the permission is there.
HasOverlayPermissionResolved ==
    /\ checkPc = "hasOverlayPermission"
    /\ LET permissionStatus == overlayGranted
       IN /\ hasPermission' = permissionStatus
          /\ checkPc' = IF permissionStatus THEN "isServiceRunning" ELSE "done"
    /\ UNCHANGED <<isServiceRunning, captureVars, storeVars, overlayGranted, serviceAlive,
                   permRequests, serviceCalls, queries, now, alert, histVars>>

\* isServiceRunning resolves: setIsServiceRunning(serviceStatus).
IsServiceRunningResolved ==
    /\ checkPc = "isServiceRunning"
    /\ isServiceRunning' = serviceAlive
    /\ checkPc' = "done"
    /\ UNCHANGED <<hasPermission, captureVars, storeVars, overlayGranted, serviceAlive,
                   permRequests, serviceCalls, queries, now, alert, histVars>>

\* Either query rejects: the catch block logs and checkStatus ends.
CheckStatusRejected ==
    /\ checkPc \in {"hasOverlayPermission", "isServiceRunning"}
    /\ checkPc' = "done"
    /\ UNCHANGED <<reactVars, storeVars, overlayGranted, serviceAlive,
                   permRequests, serviceCalls, queries, now, alert, histVars>>

\* ---------------------------------------------------------- requestPermission
\* The Request Permission button, rendered while !hasPermission.
RequestPermission ==
    /\ ~hasPermission
    /\ permRequests < MaxRequests
    /\ permRequests' = permRequests + 1
    /\ UNCHANGED <<reactVars, storeVars, overlayGranted, serviceAlive, checkPc,
                   serviceCalls, queries, now, alert, histVars>>

\* requestOverlayPermission resolves with the permission as it stands.
RequestPermissionResolved ==
    /\ permRequests > 0
    /\ permRequests' = permRequests - 1
    /\ LET granted == overlayGranted
       IN /\ hasPermission' = granted
          /\ alert' = IF ~granted THEN "denied" ELSE alert
    /\ UNCHANGED <<isServiceRunning, captureVars, storeVars, overlayGranted, serviceAlive,
                   checkPc, serviceCalls, queries, now, histVars>>

\* requestOverlayPermission rejects: console.error only.
RequestPermissionRejected ==
    /\ permRequests > 0
    /\ permRequests' = permRequests - 1
    /\ UNCHANGED <<reactVars, storeVars, overlayGranted, serviceAlive, checkPc,
                   serviceCalls, queries, now, alert, histVars>>

\* -------------------------------------------------------------- toggleService
\* The Start/Stop Service button, disabled while !hasPermission.  The native
\* call is issued and the flag is set without awaiting the call.
ToggleService ==
    /\ hasPermission
    /\ Len(serviceCalls) < MaxCalls
    /\ IF isServiceRunning
       THEN /\ serviceCalls' = Append(serviceCalls, "stop")
            /\ isServiceRunning' = FALSE
            /\ UNCHANGED permRequests
       ELSE IF hasPermission
       THEN /\ serviceCalls' = Append(serviceCalls, "start")
            /\ isServiceRunning' = TRUE
            /\ UNCHANGED permRequests
       ELSE /\ permRequests' = permRequests + 1
            /\ UNCHANGED <<serviceCalls, isServiceRunning>>
    /\ UNCHANGED <<hasPermission, captureVars, storeVars, overlayGranted, serviceAlive,
                   checkPc, queries, now, alert, histVars>>

\* ------------------------------------------------------ native collaborator
\* The user grants or revokes 'Draw over other apps' in the system settings.
OverlaySettingChanged ==
    /\ overlayGranted' = ~overlayGranted
    /\ UNCHANGED <<reactVars, storeVars, serviceAlive, checkPc, permRequests,
                   serviceCalls, queries, now, alert, histVars>>

\* The collaborator handles startFloatingWidgetService: the floating button
\* can be drawn only with the overlay permission.
StartServiceHandled ==
    /\ serviceCalls # <<>>
    /\ Head(serviceCalls) = "start"
    /\ serviceCalls' = Tail(serviceCalls)
    /\ serviceAlive' = (serviceAlive \/ overlayGranted)
    /\ UNCHANGED <<reactVars, storeVars, overlayGranted, checkPc, permRequests,
                   queries, now, alert, histVars>>

\* The collaborator handles stopFloatingWidgetService.
StopServiceHandled ==
    /\ serviceCalls # <<>>
    /\ Head(serviceCalls) = "stop"
    /\ serviceCalls' = Tail(serviceCalls)
    /\ serviceAlive' = FALSE
    /\ UNCHANGED <<reactVars, storeVars, overlayGranted, checkPc, permRequests,
                   queries, now, alert, histVars>>

\* ------------------------------------------------------------------- restart
Orphaned(q) ==
    LET sets == SelectSeq(q, LAMBDA r : r.op = "set")
    IN [i \in 1..Len(sets) |-> [sets[i] EXCEPT !.live = FALSE]]

\* The app is closed and launched again: React state starts from its
\* useState initial values and the three mount effects run.  Writes already
\* handed to AsyncStorage still reach the store; nothing awaits them.
Restart ==
    /\ sessions < MaxSessions
    /\ sessions' = sessions + 1
    /\ prevSession' = [clean |-> PendingWrites = {}, list |-> written]
    /\ hasPermission' = FALSE
    /\ isServiceRunning' = FALSE
    /\ modalVisible' = FALSE
    /\ currentNote' = ""
    /\ context' = NullContext
    /\ bookmarks' = <<>>
    /\ storageQ' = Orphaned(storageQ) \o <<GetRequest>>
    /\ loadState' = "pending"
    /\ checkPc' = "hasOverlayPermission"
    /\ permRequests' = 0
    /\ queries' = <<>>
    /\ alert' = "none"
    /\ ctxPress' = NoPress
    /\ UNCHANGED <<storage, overlayGranted, serviceAlive, serviceCalls, now,
                   nPresses, nCaptures, history, written>>

\* ------------------------------------------------------------ specifications
Next ==
    \/ Tick
    \/ ButtonPress
    \/ GetForegroundAppResolved
    \/ GetForegroundAppRejected
    \/ ChangeText
    \/ Cancel
    \/ HandleSaveNote
    \/ SetItemResolved
    \/ SetItemRejected
    \/ GetItemResolved
    \/ GetItemRejected
    \/ Restart

Spec == Init /\ [][Next]_vars

\* The permission and service controls of the same component.
NextService ==
    \/ HasOverlayPermissionResolved
    \/ IsServiceRunningResolved
    \/ CheckStatusRejected
    \/ RequestPermission
    \/ RequestPermissionResolved
    \/ RequestPermissionRejected
    \/ ToggleService
    \/ OverlaySettingChanged
    \/ StartServiceHandled
    \/ StopServiceHandled
    \/ Restart

SpecService == Init /\ [][NextService]_vars

\* ===================================================================== claims
NoDuplicates(list, Key(_)) ==
    \A i, j \in DOMAIN list : i # j => Key(list[i]) # Key(list[j])
IdOf(b) == b.id
CaptureOf(b) == history[b.born].press
NewestFirst(list) ==
    \A i, j \in DOMAIN list : i < j => list[i].born > list[j].born
Contains(list, b) == \E i \in DOMAIN list : list[i] = b

\* A step in which handleSaveNote passed its guard and built a bookmark
SaveStep == Len(history') = Len(history) + 1
\* A step in which loadBookmarks' getItem resolved
LoadResolvedStep == loadState = "pending" /\ loadState' = "ok"

\* C1: whenever loadBookmarks has completed and no handleSaveNote call is in
\* flight, the in-memory list equals the list decoded from the persisted blob.
InSyncWhenIdle ==
    (loadState = "ok" /\ LiveWrites = {}) => bookmarks = Persisted

\* C2: no two bookmarks of the in-memory list, and no two of the persisted
\* blob, have the same id.
UniqueIds ==
    NoDuplicates(bookmarks, IdOf) /\ NoDuplicates(Persisted, IdOf)

\* C3: a bookmark that is in the persisted blob is still in it, unchanged,
\* after every step of the app.
PersistedNeverRemoved ==
    [][\A i \in DOMAIN Persisted : Contains(Persisted', Persisted[i])]_vars

\* C4: the in-memory list and the persisted list are ordered by creation,
\* most recent first, and every save puts the new bookmark at the head and
\* keeps the bookmarks listed before after it in their order.
NewestFirstKept ==
    /\ [](NewestFirst(bookmarks) /\ NewestFirst(Persisted))
    /\ [][SaveStep => /\ Head(bookmarks').born = Len(history')
                      /\ Tail(bookmarks') = bookmarks]_vars
NewestFirstWitness ==
    /\ Len(bookmarks) >= 2
    /\ Len(Persisted) >= 2
    /\ bookmarks[1].born > bookmarks[2].born

\* C5 (as stated): after a session that ended with no save in flight, when
\* loadBookmarks completes successfully at the next launch the in-memory list
\* equals the list persisted at the end of the previous session.
RoundTripOnRelaunch ==
    [][(LoadResolvedStep /\ sessions > 1 /\ prevSession.clean)
          => bookmarks' = prevSession.list]_vars

\* C5 (amended): the same, provided no Save was tapped in the new session
\* before loadBookmarks completes (the in-memory list is then still the
\* initial empty list: only a save and the load assign it).
RoundTripOnRelaunchUntouched ==
    [][(LoadResolvedStep /\ sessions > 1 /\ prevSession.clean /\ bookmarks = <<>>)
          => bookmarks' = prevSession.list]_vars
RoundTripWitness ==
    /\ sessions > 1
    /\ loadState = "ok"
    /\ prevSession.clean
    /\ Len(prevSession.list) >= 2
    /\ bookmarks = prevSession.list

\* C6: every bookmark carries the app reported for the button press its
\* context came from and, as its timestamp, the time of that press.
BookmarkCarriesPressContext ==
    \A i \in DOMAIN bookmarks :
        LET from == history[bookmarks[i].born]
        IN /\ bookmarks[i].app = from.app
           /\ bookmarks[i].timestamp = ToLocaleString(from.time)

\* C7: every bookmark in the in-memory list and in the persisted blob has a
\* non-empty note.
NotesNonEmpty ==
    /\ \A i \in DOMAIN bookmarks : bookmarks[i].note # ""
    /\ \A i \in DOMAIN Persisted : Persisted[i].note # ""
NotesNonEmptyWitness ==
    /\ bookmarks # <<>>
    /\ Persisted # <<>>
    /\ modalVisible /\ ~context.isNull /\ currentNote = ""

\* C8: whenever no collaborator call is pending, isServiceRunning is true
\* exactly when the floating button service is running.
ServiceFlagMirrors ==
    (checkPc = "done" /\ permRequests = 0 /\ serviceCalls = <<>>)
        => (isServiceRunning = serviceAlive)

\* C9: isServiceRunning = true implies hasPermission = true.
RunningImpliesPermission ==
    isServiceRunning => hasPermission

\* C10: no two bookmarks of the in-memory list were created from the same
\* capture event.
OneBookmarkPerCapture ==
    NoDuplicates(bookmarks, CaptureOf)

\* A step in which the getForegroundApp query of one button press settles
\* (the listener is still subscribed: the session goes on)
QuerySettles == Len(queries') = Len(queries) - 1 /\ sessions' = sessions
QueryResolves == QuerySettles /\ nCaptures' = nCaptures + 1
QueryRejects == QuerySettles /\ nCaptures' = nCaptures

\* C11: when the foreground-app query of a button press settles, either it
\* succeeded and the dialog is visible with context set to the reported app
\* and a timestamp, or it failed and the error alert is shown.
PressHasOutcome ==
    [][QuerySettles =>
        \/ /\ QueryResolves
           /\ modalVisible'
           /\ ~context'.isNull
           /\ context'.app = ctxPress'.app
           /\ context'.app \in Apps
           /\ context'.timestamp = ToLocaleString(now)
        \/ /\ QueryRejects
           /\ alert' = "context"]_vars
PressHasOutcomeWitness ==
    /\ modalVisible
    /\ ~context.isNull
    /\ context.app = ctxPress.app
    /\ alert = "context"
    /\ queries = <<>>

\* C12: when the foreground-app query of a button press fails, nothing but
\* the alert changes: modalVisible, context, currentNote, the in-memory list
\* and the persisted blob are as before.
FailedQueryOnlyAlerts ==
    [][QueryRejects =>
        /\ alert' = "context"
        /\ UNCHANGED <<modalVisible, context, currentNote, bookmarks, storage>>]_vars
FailedQueryWitness ==
    /\ alert = "context"
    /\ modalVisible
    /\ ~context.isNull
    /\ currentNote # ""
    /\ bookmarks # <<>>

\* A step in which AsyncStorage settles the setItem of a handleSaveNote call
\* of the running session; `written` tells a resolved write from a rejected
\* one (every write serializes a list with a bookmark no earlier write had).
LiveWriteSettles ==
    /\ storageQ # <<>>
    /\ Head(storageQ).op = "set"
    /\ Head(storageQ).live
    /\ storageQ' = Tail(storageQ)
    /\ sessions' = sessions
LiveWriteResolves == LiveWriteSettles /\ written' = Head(storageQ).src
LiveWriteRejects == LiveWriteSettles /\ written' = written

\* C13: when the storage write of handleSaveNote fails, the error alert is
\* shown, the persisted blob is unchanged, and modalVisible, currentNote and
\* context are as before (an open dialog stays open, nothing is cleared).
FailedWriteKeepsDialog ==
    [][LiveWriteRejects =>
        /\ alert' = "save"
        /\ storage' = storage
        /\ UNCHANGED <<modalVisible, currentNote, context>>]_vars
FailedWriteWitness ==
    /\ alert = "save"
    /\ LiveWrites = {}
    /\ modalVisible
    /\ currentNote # ""
    /\ ~context.isNull
    /\ bookmarks # <<>>
    /\ ~storage.present

\* C14: a handleSaveNote call with an empty currentNote or a null context
\* changes nothing: the in-memory list, the persisted blob, currentNote,
\* context and modalVisible are as before and no storage write is issued.
IgnoredSaveIsNoOp ==
    [][(HandleSaveNote /\ ~CanSave) =>
        UNCHANGED <<bookmarks, storage, storageQ, currentNote, context, modalVisible>>]_vars
IgnoredSaveWitness ==
    /\ modalVisible
    /\ ~CanSave
    /\ ENABLED HandleSaveNote
    /\ bookmarks # <<>>

\* The capture event the bookmark of the write at the head of the queue was
\* created from
HeadWriteCapture == history[Head(storageQ).src[1].born].press

\* C15: when the write of an earlier save resolves while the dialog shows the
\* context of a newer button press, that dialog stays visible and its
\* context stays set.
NewerDialogSurvives ==
    [][(LiveWriteResolves /\ modalVisible /\ ~context.isNull
            /\ ctxPress.press # HeadWriteCapture)
        => (modalVisible' /\ context' = context)]_vars

\* A step of the Cancel button or of onRequestClose: the dialog is hidden and
\* neither a write settled nor the app restarted
CancelStep ==
    /\ modalVisible /\ ~modalVisible'
    /\ storageQ' = storageQ
    /\ sessions' = sessions

\* C16: Cancel only hides the dialog: the in-memory list, the persisted blob,
\* currentNote and context are as before.
CancelOnlyHides ==
    [][CancelStep => UNCHANGED <<bookmarks, storage, currentNote, context, history>>]_vars
CancelWitness ==
    /\ ~modalVisible
    /\ ~context.isNull
    /\ currentNote # ""
    /\ LiveWrites = {}
    /\ bookmarks = <<>>

\* C17: whenever the capture dialog is visible a capture context is set.
VisibleDialogHasContext ==
    modalVisible => ~context.isNull
VisibleDialogWitness ==
    /\ modalVisible
    /\ ~context.isNull
    /\ currentNote # ""
    /\ written # <<>>
    /\ LiveWrites = {}

====
